---- MODULE Spec2Model ----
(***************************************************************************)
(* A model of the three utilities of aa-pytools:                           *)
(*   - aa_pytools.core.logging   (get_logger, configure_logging,           *)
(*                                get_current_config)                      *)
(*   - aa_pytools.decorators.safe_execute (the wrapper)                    *)
(*   - scripts/bump_version.py   (the version bumper)                      *)
(*                                                                         *)
(* Python strings are TLA+ strings (Len, \o and SubSeq work on them).      *)
(* Python's None is the sentinel NoneValue, which is none of the strings   *)
(* the inputs are drawn from.                                              *)
(*                                                                         *)
(* The module-level statement of logging.py line 16 reads                  *)
(*     _config = dict[str, any] = {...}                                    *)
(* The model takes _config to be bound to the dictionary on its right, as  *)
(* the functions below that line and the tests use it.                     *)
(***************************************************************************)
EXTENDS Integers, Sequences, FiniteSets, TLC

VARIABLES
    config,          \* logging.py: the module-level _config dictionary
    package_logger,  \* the logging.Logger named PACKAGE_NAME
    last,            \* the last logging call: its arguments and how it ended
    wcall,           \* safe_execute: the last invocation of a wrapper
    wret,            \* safe_execute: what that invocation gave its caller
    argv,            \* bump_version.py: sys.argv
    manifest,        \* bump_version.py: the text of pyproject.toml
    bump,            \* bump_version.py: position and locals of the script
    threads          \* logging.py: each thread's position in a logging call

vars == <<config, package_logger, last, wcall, wret, argv, manifest, bump, threads>>
logVars == <<config, package_logger, last, threads>>
wrapVars == <<wcall, wret>>
bumpVars == <<argv, manifest, bump>>

(***************************************************************************)
(* Python values and string helpers                                        *)
(***************************************************************************)
NoneValue == "<None>"

\* Python truthiness of an Optional[str]
Truthy(v) == v # NoneValue /\ v # ""

\* Python's  a or b
PyOr(a, b) == IF Truthy(a) THEN a ELSE b

CharAt(s, i) == SubSeq(s, i, i)

\* str.startswith
StartsWith(s, prefix) ==
    /\ Len(s) >= Len(prefix)
    /\ SubSeq(s, 1, Len(prefix)) = prefix

LowerChars == "abcdefghijklmnopqrstuvwxyz"
UpperChars == "ABCDEFGHIJKLMNOPQRSTUVWXYZ"

UpperChar(c) ==
    IF \E i \in 1..26 : CharAt(LowerChars, i) = c
    THEN CharAt(UpperChars, CHOOSE i \in 1..26 : CharAt(LowerChars, i) = c)
    ELSE c

RECURSIVE Upper(_)
\* str.upper
Upper(s) ==
    IF s = "" THEN ""
    ELSE UpperChar(CharAt(s, 1)) \o Upper(SubSeq(s, 2, Len(s)))

RECURSIVE Find(_, _, _)
\* str.find(sub, from): the position of the first occurrence of sub in s at
\* or after from (counted from 1), 0 if there is none
Find(s, sub, from) ==
    IF from + Len(sub) - 1 > Len(s) THEN 0
    ELSE IF SubSeq(s, from, from + Len(sub) - 1) = sub THEN from
    ELSE Find(s, sub, from + 1)

(***************************************************************************)
(* aa_pytools.core.logging                                                 *)
(***************************************************************************)
DEFAULT_LOG_LEVEL == "INFO"
DEFAULT_FORMAT == "%(asctime)s | %(name)s | %(levelname)s | %(message)s"
DEFAULT_DATE_FORMAT == "%Y-%m-%d %H:%M:%S"
PACKAGE_NAME == "aa_pytools"

\* LOG_LEVEL = Literal["DEBUG", "INFO", "WARNING", "ERROR", "CRITICAL"]
LOG_LEVEL == {"DEBUG", "INFO", "WARNING", "ERROR", "CRITICAL"}

\* The upper-case attributes of the standard logging module, as
\* getattr(logging, name) finds them: the numeric levels, their aliases, and
\* two attributes that are not levels.
LoggingAttrNames ==
    {"CRITICAL", "FATAL", "ERROR", "WARNING", "WARN", "INFO", "DEBUG",
     "NOTSET", "BASIC_FORMAT", "_STYLES"}

LoggingAttr(name) ==
    CASE name = "CRITICAL" -> [t |-> "int", i |-> 50]
      [] name = "FATAL" -> [t |-> "int", i |-> 50]
      [] name = "ERROR" -> [t |-> "int", i |-> 40]
      [] name = "WARNING" -> [t |-> "int", i |-> 30]
      [] name = "WARN" -> [t |-> "int", i |-> 30]
      [] name = "INFO" -> [t |-> "int", i |-> 20]
      [] name = "DEBUG" -> [t |-> "int", i |-> 10]
      [] name = "NOTSET" -> [t |-> "int", i |-> 0]
      [] name = "BASIC_FORMAT" -> [t |-> "str", s |-> "%(levelname)s:%(name)s:%(message)s"]
      [] name = "_STYLES" -> [t |-> "dict"]

\* logging._nameToLevel, the names Logger.setLevel accepts as strings
NameToLevel == {"CRITICAL", "FATAL", "ERROR", "WARN", "WARNING", "INFO", "DEBUG", "NOTSET"}

\* Logger.setLevel(value) -> logging._checkLevel(value): the exception it
\* raises, "" when it sets the level
CheckLevelRaises(value) ==
    CASE value.t = "int" -> ""
      [] value.t = "str" -> IF value.s \in NameToLevel THEN "" ELSE "ValueError: Unknown level"
      [] OTHER -> "TypeError: Level not an integer or a valid string"

\* The numeric severity of the five levels of LOG_LEVEL
Severity(name) == LoggingAttr(name).i

WordChars == "abcdefghijklmnopqrstuvwxyzABCDEFGHIJKLMNOPQRSTUVWXYZ0123456789_"

IsWord(s) == /\ Len(s) >= 1
             /\ \A k \in 1..Len(s) : Find(WordChars, CharAt(s, k), 1) # 0

\* logging.Formatter(fmt=..., datefmt=...) validates a %-style format: it
\* must hold at least one %(name)s field, else the constructor raises
\* ValueError.
FormatIsValid(fmt) ==
    \E i \in 1..Len(fmt) : \E j \in (i + 3)..Len(fmt) :
        /\ SubSeq(fmt, i, i + 1) = "%("
        /\ SubSeq(fmt, j - 1, j) = ")s"
        /\ IsWord(SubSeq(fmt, i + 2, j - 2))

\* logging.Formatter(fmt=..., datefmt=...)
Formatter(fmt, datefmt) == [fmt |-> fmt, datefmt |-> datefmt]

\* logging.StreamHandler(sys.stdout) after setFormatter
StreamHandler(formatter) ==
    [kind |-> "StreamHandler", target |-> "sys.stdout", formatter |-> formatter]

\* logging.FileHandler(log_path) after setFormatter
FileHandler(log_path, formatter) ==
    [kind |-> "FileHandler", target |-> log_path, formatter |-> formatter]

\* isinstance(h, logging.FileHandler)
IsFileHandler(h) == h.kind = "FileHandler"

\* isinstance(h, logging.StreamHandler): FileHandler derives from StreamHandler
IsStreamHandler(h) == h.kind \in {"StreamHandler", "FileHandler"}

\* isinstance(h, StreamHandler) and not isinstance(h, FileHandler)
IsConsoleHandler(h) == IsStreamHandler(h) /\ ~IsFileHandler(h)

\* any(<console handler test> for h in handlers)
HasConsoleHandler(handlers) == \E k \in 1..Len(handlers) : IsConsoleHandler(handlers[k])

\* any(isinstance(h, logging.FileHandler) for h in handlers)
HasFileHandler(handlers) == \E k \in 1..Len(handlers) : IsFileHandler(handlers[k])

\* The number of console handlers and of file handlers in a handler list
CountConsole(handlers) == Cardinality({k \in 1..Len(handlers) : IsConsoleHandler(handlers[k])})
CountFile(handlers) == Cardinality({k \in 1..Len(handlers) : IsFileHandler(handlers[k])})

\* The inputs the calls are drawn from
LevelArgs == {NoneValue, "debug", "Warning", "WARN", "INVALID", "BASIC_FORMAT"}
FormatArgs == {NoneValue, "%(levelname)s: %(message)s", "plain text"}
DateFormatArgs == {NoneValue, "%H:%M:%S"}
\* The format and date format a call passes together
FormatOptions ==
    {<<NoneValue, NoneValue>>,
     <<"%(levelname)s: %(message)s", "%H:%M:%S">>,
     <<"plain text", NoneValue>>}
LogFileArgs == {NoneValue, "", "logs/app.log", "/readonly/app.log", "logs"}
LoggerNames == {"aa_pytools", "aa_pytools.core", "aa_pytools_extra", "some_other_package.module", "aa"}

\* str.upper() of every level string the calls record, computed once
UpperOf == [s \in (LevelArgs \ {NoneValue}) \cup {DEFAULT_LOG_LEVEL} |-> Upper(s)]

\* The format strings logging.Formatter accepts, computed once
ValidFormats == {f \in (FormatArgs \ {NoneValue}) \cup {DEFAULT_FORMAT} : FormatIsValid(f)}

\* The file system the log files are opened on: under /readonly no directory
\* can be created (Path.mkdir raises PermissionError), and logs is a
\* directory (FileHandler raises IsADirectoryError).
MkdirFails(log_file) == StartsWith(log_file, "/readonly/")
OpenFails(log_file) == log_file = "logs"

NoCall == [op |-> "none"]

\* The threads that call into the module at the same time
NumThreads == 2
Threads == 1..NumThreads

\* A thread that is in no logging call and has made none
Idle == [pc |-> "idle"]

\* The state of the module after import
InitLogging ==
    /\ config = [level |-> DEFAULT_LOG_LEVEL,
                 format |-> DEFAULT_FORMAT,
                 date_format |-> DEFAULT_DATE_FORMAT,
                 handlers |-> <<>>,
                 configured |-> FALSE]
    /\ package_logger = [level |-> 0, handlers |-> <<>>, propagate |-> TRUE]
    /\ last = NoCall
    /\ threads = [t \in Threads |-> Idle]

\* AddConsole without the test of lines 67-70 for a console handler already
\* attached
AddConsole_NoExistsCheck(st, console, formatter) ==
    IF console
    THEN [st EXCEPT !.package_logger.handlers = Append(@, StreamHandler(formatter)),
                    !.config.handlers = Append(@, StreamHandler(formatter))]
    ELSE st

\* configure_logging, lines 66-74: the console handler
AddConsole(st, console, formatter) ==
    IF console /\ ~HasConsoleHandler(st.package_logger.handlers)
    THEN [st EXCEPT !.package_logger.handlers = Append(@, StreamHandler(formatter)),
                    !.config.handlers = Append(@, StreamHandler(formatter))]
    ELSE st

\* configure_logging, lines 76-85: the file handler
AddFile(st, log_file, formatter) ==
    IF ~Truthy(log_file) THEN st
    ELSE IF MkdirFails(log_file) THEN [st EXCEPT !.raised = "PermissionError"]
    ELSE IF HasFileHandler(st.package_logger.handlers) THEN st
    ELSE IF OpenFails(log_file) THEN [st EXCEPT !.raised = "IsADirectoryError"]
    ELSE [st EXCEPT !.package_logger.handlers = Append(@, FileHandler(log_file, formatter)),
                    !.config.handlers = Append(@, FileHandler(log_file, formatter))]

\* ClearHandlers forgetting the logger's own list: only _config["handlers"]
\* is cleared
ClearHandlers_ConfigOnly(st, force_reconfigure) ==
    IF force_reconfigure
    THEN [st EXCEPT !.config.handlers = <<>>,
                    !.config.configured = FALSE]
    ELSE st

\* configure_logging, lines 57-61: clear the handlers when reconfiguring
ClearHandlers(st, force_reconfigure) ==
    IF force_reconfigure
    THEN [st EXCEPT !.package_logger.handlers = <<>>,
                    !.config.handlers = <<>>,
                    !.config.configured = FALSE]
    ELSE st

\* configure_logging, lines 87-89
Finish(st) ==
    IF st.raised # "" THEN st
    ELSE [st EXCEPT !.package_logger.propagate = FALSE,
                    !.config.configured = TRUE]

\* configure_logging, lines 45-55: record the options and set the level
SetLevel(st, level, format_string, date_format) ==
    LET c == [st.config EXCEPT !.level = PyOr(level, DEFAULT_LOG_LEVEL),
                               !.format = PyOr(format_string, DEFAULT_FORMAT),
                               !.date_format = PyOr(date_format, DEFAULT_DATE_FORMAT)]
        attr == UpperOf[c.level]
        st1 == [st EXCEPT !.config = c]
    IN IF attr \notin LoggingAttrNames
       THEN [st1 EXCEPT !.raised = "ValueError: Invalid log level"]
       ELSE IF CheckLevelRaises(LoggingAttr(attr)) # ""
       THEN [st1 EXCEPT !.raised = CheckLevelRaises(LoggingAttr(attr))]
       ELSE [st1 EXCEPT !.package_logger.level = LoggingAttr(attr).i]

\* ConfigureLoggingResult without the early return of lines 42-43
ConfigureLoggingResult_NoEarlyReturn(st0, level, format_string, date_format, log_file, console, force_reconfigure) ==
    LET st == [config |-> st0.config, package_logger |-> st0.package_logger,
               raised |-> ""]
        s1 == SetLevel(st, level, format_string, date_format)
    IN IF s1.raised # "" THEN s1
       ELSE LET s2 == ClearHandlers(s1, force_reconfigure)
            IN IF s2.config.format \notin ValidFormats
               THEN [s2 EXCEPT !.raised = "ValueError: Invalid format"]
               ELSE LET formatter == Formatter(s2.config.format,
                                               s2.config.date_format)
                    IN Finish(AddFile(AddConsole(s2, console, formatter),
                                      log_file, formatter))

\* configure_logging: the state it leaves and the exception it raises ("" when
\* it returns), from the state st = [config, package_logger]
ConfigureLoggingResult(st0, level, format_string, date_format, log_file, console, force_reconfigure) ==
    LET st == [config |-> st0.config, package_logger |-> st0.package_logger,
               raised |-> ""]
    IN IF st.config.configured /\ ~force_reconfigure THEN st
       ELSE LET s1 == SetLevel(st, level, format_string, date_format)
            IN IF s1.raised # "" THEN s1
               ELSE LET s2 == ClearHandlers(s1, force_reconfigure)
                    IN IF s2.config.format \notin ValidFormats
                       THEN [s2 EXCEPT !.raised = "ValueError: Invalid format"]
                       ELSE LET formatter == Formatter(s2.config.format,
                                                       s2.config.date_format)
                            IN Finish(AddFile(AddConsole(s2, console, formatter),
                                              log_file, formatter))

\* A call of configure_logging(level, format_string, date_format, log_file,
\* console, force_reconfigure)
ConfigureLogging(level, format_string, date_format, log_file, console, force_reconfigure) ==
    LET r == ConfigureLoggingResult([config |-> config,
                                     package_logger |-> package_logger],
                                    level, format_string, date_format,
                                    log_file, console, force_reconfigure)
    IN /\ config' = r.config
       /\ package_logger' = r.package_logger
       /\ last' = [op |-> "configure_logging",
                   level |-> level,
                   file |-> Truthy(log_file),
                   console |-> console,
                   force_reconfigure |-> force_reconfigure,
                   was_configured |-> config.configured,
                   raised |-> r.raised]
       /\ UNCHANGED <<threads, wrapVars, bumpVars>>

\* GetLogger without the test of _config["configured"] on line 28
GetLogger_AlwaysConfigure(name) ==
    LET auto == StartsWith(name, PACKAGE_NAME)
        r == IF auto
             THEN ConfigureLoggingResult([config |-> config,
                                          package_logger |-> package_logger],
                                         NoneValue, NoneValue, NoneValue,
                                         NoneValue, TRUE, FALSE)
             ELSE [config |-> config, package_logger |-> package_logger,
                   raised |-> ""]
    IN /\ config' = r.config
       /\ package_logger' = r.package_logger
       /\ last' = [op |-> "get_logger",
                   name |-> name,
                   was_configured |-> config.configured,
                   called_configure |-> auto,
                   raised |-> r.raised]
       /\ UNCHANGED <<threads, wrapVars, bumpVars>>

\* A call of get_logger(name)
GetLogger(name) ==
    LET auto == StartsWith(name, PACKAGE_NAME) /\ ~config.configured
        r == IF auto
             THEN ConfigureLoggingResult([config |-> config,
                                          package_logger |-> package_logger],
                                         NoneValue, NoneValue, NoneValue,
                                         NoneValue, TRUE, FALSE)
             ELSE [config |-> config, package_logger |-> package_logger,
                   raised |-> ""]
    IN /\ config' = r.config
       /\ package_logger' = r.package_logger
       /\ last' = [op |-> "get_logger",
                   name |-> name,
                   was_configured |-> config.configured,
                   called_configure |-> auto,
                   raised |-> r.raised]
       /\ UNCHANGED <<threads, wrapVars, bumpVars>>

\* The module state a step of a thread works on
SharedState == [config |-> config, package_logger |-> package_logger, raised |-> ""]

\* A thread enters configure_logging(console=..., force_reconfigure=...), the
\* other options left to their defaults
EnterConfigureLogging(t, console, force_reconfigure) ==
    /\ threads[t].pc = "idle"
    /\ threads' = [threads EXCEPT ![t] = [pc |-> "line42", console |-> console,
                                          force_reconfigure |-> force_reconfigure]]
    /\ UNCHANGED <<config, package_logger, last, wrapVars, bumpVars>>

\* get_logger, lines 27-31, called by a thread: the test of line 28, then
\* the call of configure_logging() or the return of line 31
EnterGetLogger(t, name) ==
    /\ threads[t].pc = "idle"
    /\ threads' = [threads EXCEPT ![t] =
                      IF StartsWith(name, PACKAGE_NAME) /\ ~config.configured
                      THEN [pc |-> "line42", console |-> TRUE,
                            force_reconfigure |-> FALSE]
                      ELSE [pc |-> "done", entered |-> FALSE, attach |-> FALSE]]
    /\ UNCHANGED <<config, package_logger, last, wrapVars, bumpVars>>

\* configure_logging, lines 42-43: the test of the configured flag
Line42(t) ==
    /\ threads[t].pc = "line42"
    /\ threads' = [threads EXCEPT ![t] =
                      IF config.configured /\ ~threads[t].force_reconfigure
                      THEN [pc |-> "done", entered |-> FALSE, attach |-> FALSE]
                      ELSE [@ EXCEPT !.pc = "line46"]]
    /\ UNCHANGED <<config, package_logger, last, wrapVars, bumpVars>>

\* configure_logging, lines 46-55, with the default level, format and date
\* format
Line46(t) ==
    /\ threads[t].pc = "line46"
    /\ LET s == SetLevel(SharedState, NoneValue, NoneValue, NoneValue)
       IN /\ config' = s.config
          /\ package_logger' = s.package_logger
    /\ threads' = [threads EXCEPT ![t].pc = "line58"]
    /\ UNCHANGED <<last, wrapVars, bumpVars>>

\* configure_logging, lines 58-61
Line58(t) ==
    /\ threads[t].pc = "line58"
    /\ LET s == ClearHandlers(SharedState, threads[t].force_reconfigure)
       IN /\ config' = s.config
          /\ package_logger' = s.package_logger
    /\ threads' = [threads EXCEPT ![t].pc = "line67"]
    /\ UNCHANGED <<last, wrapVars, bumpVars>>

\* Line67 with the handler attached whenever console is requested
Line67_NoExistsCheck(t) ==
    /\ threads[t].pc = "line67"
    /\ threads' = [threads EXCEPT ![t] =
                      [pc |-> IF threads[t].console THEN "line73" ELSE "line88",
                       attach |-> threads[t].console
                                  /\ ~HasConsoleHandler(package_logger.handlers)]]
    /\ UNCHANGED <<config, package_logger, last, wrapVars, bumpVars>>

\* configure_logging, lines 64-70: the formatter, and the test for a console
\* handler on the package logger, whose outcome the thread keeps
Line67(t) ==
    /\ threads[t].pc = "line67"
    /\ LET attach == threads[t].console
                     /\ ~HasConsoleHandler(package_logger.handlers)
       IN threads' = [threads EXCEPT ![t] =
                         [pc |-> IF attach THEN "line73" ELSE "line88",
                          attach |-> attach]]
    /\ UNCHANGED <<config, package_logger, last, wrapVars, bumpVars>>

\* configure_logging, lines 71-73: package_logger.addHandler(console_handler)
Line73(t) ==
    /\ threads[t].pc = "line73"
    /\ package_logger' =
           [package_logger EXCEPT !.handlers =
               Append(@, StreamHandler(Formatter(config.format, config.date_format)))]
    /\ threads' = [threads EXCEPT ![t].pc = "line74"]
    /\ UNCHANGED <<config, last, wrapVars, bumpVars>>

\* configure_logging, line 74: _config["handlers"].append(console_handler)
Line74(t) ==
    /\ threads[t].pc = "line74"
    /\ config' =
           [config EXCEPT !.handlers =
               Append(@, StreamHandler(Formatter(config.format, config.date_format)))]
    /\ threads' = [threads EXCEPT ![t].pc = "line88"]
    /\ UNCHANGED <<package_logger, last, wrapVars, bumpVars>>

\* configure_logging, lines 88-89, and the return
Line88(t) ==
    /\ threads[t].pc = "line88"
    /\ LET s == Finish(SharedState)
       IN /\ config' = s.config
          /\ package_logger' = s.package_logger
    /\ threads' = [threads EXCEPT ![t] =
                      [pc |-> "done", entered |-> TRUE, attach |-> threads[t].attach]]
    /\ UNCHANGED <<last, wrapVars, bumpVars>>

\* get_current_config()
GetCurrentConfig ==
    [level |-> config.level,
     format |-> config.format,
     date_format |-> config.date_format,
     configured |-> config.configured,
     handlers_count |-> Len(config.handlers)]


(***************************************************************************)
(* aa_pytools.decorators.safe_execute                                      *)
(***************************************************************************)
DEFAULT_SUCCESS_MSG == "execute successfully"
DEFAULT_NO_RESULT == "No result data"

\* The largest elapsed time measured, in microseconds
MaxElapsed == 1

\* Python values a wrapped callable returns
PyNone == [t |-> "NoneType"]
PyInt(i) == [t |-> "int", i |-> i]
PyStr(s) == [t |-> "str", s |-> s]
PyList(items) == [t |-> "list", items |-> items]
PyTuple(items) == [t |-> "tuple", items |-> items]
\* a value the json module cannot encode, such as a set
PySet == [t |-> "set"]

ReturnValues ==
    {PyNone, PyInt(4), PyInt(0), PyStr("hello"), PyStr(""),
     PyList(<<>>), PyList(<<PyInt(1), PyInt(2)>>),
     PyTuple(<<PyInt(1), PyInt(2)>>), PySet}

\* The built-in exception classes that do not derive from Exception
NotExceptionSubclasses == {"KeyboardInterrupt", "SystemExit", "GeneratorExit"}

\* issubclass(exc_type, Exception): what  except Exception  catches
IsException(exc_type) == exc_type \notin NotExceptionSubclasses

\* The failures a wrapped callable throws: the class and str(e)
Raised ==
    {[type |-> "ZeroDivisionError", message |-> "division by zero"],
     [type |-> "ValueError", message |-> "Test error message"],
     [type |-> "KeyError", message |-> "'missing'"],
     [type |-> "KeyboardInterrupt", message |-> ""],
     [type |-> "SystemExit", message |-> "1"]}

Frame(co_name, co_filename, tb_lineno) ==
    [co_name |-> co_name, co_filename |-> co_filename, tb_lineno |-> tb_lineno]

\* The traceback entry of the wrapper itself, the outermost entry of exc_tb:
\* line 30 when func raised, line 40 when json.dumps raised
WrapperFrame(line) ==
    Frame("wrapper", "/pkg/aa_pytools/decorators/safe_execute.py", line)

\* The entries json.dumps leaves below the wrapper's when it cannot encode
JsonFrames ==
    <<Frame("dumps", "/usr/lib/python3/json/__init__.py", 231),
      Frame("encode", "/usr/lib/python3/json/encoder.py", 200),
      Frame("iterencode", "/usr/lib/python3/json/encoder.py", 258),
      Frame("default", "/usr/lib/python3/json/encoder.py", 180)>>

\* The traceback entries below the wrapper's, for a callable named name:
\* raising in its own body, in a callee, in a recursive call of itself, in
\* code whose name is not the callable's __name__ (a decorated callable), or
\* before its body is entered (the call cannot bind its arguments)
Tracebacks(name) ==
    {<<>>,
     <<Frame(name, "/app/src/calc.py", 10)>>,
     <<Frame(name, "/app/src/calc.py", 11), Frame("helper", "/app/src/util.py", 20)>>,
     <<Frame(name, "/app/src/calc.py", 12), Frame(name, "/app/src/calc.py", 14)>>,
     <<Frame("inner", "/app/src/deco.py", 7), Frame("helper", "/app/src/util.py", 20)>>}

FuncNames == {"divide", "wrapper"}

\* The wrapped callables, by what a call of them does
Funcs ==
    {[name |-> n, outcome |-> "return", value |-> v] :
        n \in FuncNames, v \in ReturnValues}
    \cup
    {[name |-> n, outcome |-> "raise", exc |-> e, tb |-> tb] :
        n \in {"divide"}, e \in Raised, tb \in Tracebacks("divide")}
    \cup
    {[name |-> n, outcome |-> "raise", exc |-> e, tb |-> tb] :
        n \in {"wrapper"}, e \in Raised, tb \in Tracebacks("wrapper")}

RECURSIVE Basename(_)
\* os.path.basename: the text after the last "/"
Basename(path) ==
    LET i == Find(path, "/", 1)
    IN IF i = 0 THEN path ELSE Basename(SubSeq(path, i + 1, Len(path)))

RECURSIVE JsonSerializable(_)
\* whether json.dumps encodes the value (it raises TypeError otherwise)
JsonSerializable(v) ==
    CASE v.t \in {"NoneType", "int", "str", "bool"} -> TRUE
      [] v.t \in {"list", "tuple"} ->
            \A k \in 1..Len(v.items) : JsonSerializable(v.items[k])
      [] OTHER -> FALSE

RECURSIVE JsonValue(_)
\* The JSON text json.dumps writes for a value, as its syntax tree: None is
\* null, lists and tuples are both arrays
JsonValue(v) ==
    CASE v.t = "NoneType" -> [j |-> "null"]
      [] v.t = "int" -> [j |-> "number", i |-> v.i]
      [] v.t = "str" -> [j |-> "string", s |-> v.s]
      [] v.t = "bool" -> [j |-> IF v.b THEN "true" ELSE "false"]
      [] v.t \in {"list", "tuple"} ->
            [j |-> "array", items |-> [k \in 1..Len(v.items) |-> JsonValue(v.items[k])]]

\* JsonDumpsSuccess written with the result left out of the encoding (null)
JsonDumpsSuccess_NullResult(payload) ==
    [j |-> "object",
     status |-> [j |-> IF payload.status THEN "true" ELSE "false"],
     message |-> [j |-> "string", s |-> payload.message],
     result |-> [j |-> "null"],
     time_spent |-> [j |-> "number", i |-> payload.time_spent]]

\* json.dumps(payload) of a success payload
JsonDumpsSuccess(payload) ==
    [j |-> "object",
     status |-> [j |-> IF payload.status THEN "true" ELSE "false"],
     message |-> [j |-> "string", s |-> payload.message],
     result |-> JsonValue(payload.result),
     time_spent |-> [j |-> "number", i |-> payload.time_spent]]

\* json.dumps of the error dictionary
JsonError(error_payload) ==
    IF "file" \in DOMAIN error_payload
    THEN [j |-> "object",
          type |-> [j |-> "string", s |-> error_payload.type],
          message |-> [j |-> "string", s |-> error_payload.message],
          file |-> JsonValue(error_payload.file),
          line |-> JsonValue(error_payload.line)]
    ELSE [j |-> "object",
          type |-> [j |-> "string", s |-> error_payload.type],
          message |-> [j |-> "string", s |-> error_payload.message]]

\* json.dumps(payload) of a failure payload
JsonDumpsFailure(payload) ==
    [j |-> "object",
     status |-> [j |-> IF payload.status THEN "true" ELSE "false"],
     error |-> JsonError(payload.error),
     time_spent |-> [j |-> "number", i |-> payload.time_spent]]

Returned(value) == [kind |-> "returned", value |-> value]
Propagated(exc) == [kind |-> "raised", exc |-> exc]

\* wrapper, lines 51-60: the traceback entry whose file and line are reported.
\* The loop walks exc_tb from its outermost entry and stops at the first one
\* whose code name is func.__name__; without one it takes exc_tb itself.
TraceFrame(func_name, exc_tb) ==
    LET hits == {k \in 1..Len(exc_tb) : exc_tb[k].co_name = func_name}
    IN IF hits = {} THEN exc_tb[1]
       ELSE exc_tb[CHOOSE k \in hits : \A m \in hits : k <= m]

\* HandleException without the fallback of line 58: when no traceback entry
\* carries the callable's name, frame is None and reading it raises
HandleException_NoFallback(func_name, exc, exc_tb, return_json, include_trace, elapsed) ==
    LET frame == TraceFrame(func_name, exc_tb)
        found == \E k \in 1..Len(exc_tb) : exc_tb[k].co_name = func_name
        error_payload ==
            IF include_trace
            THEN [type |-> exc.type, message |-> exc.message,
                  file |-> PyStr(Basename(frame.co_filename)),
                  line |-> PyInt(frame.tb_lineno)]
            ELSE [type |-> exc.type, message |-> exc.message]
        payload == [status |-> FALSE, error |-> error_payload,
                    time_spent |-> elapsed]
    IN IF include_trace /\ ~found
       THEN Propagated([type |-> "AttributeError",
                        message |-> "'NoneType' object has no attribute 'tb_frame'"])
       ELSE Returned(IF return_json THEN JsonDumpsFailure(payload) ELSE payload)

\* HandleException with the update of line 65 made whatever include_trace says
HandleException_AlwaysTrace(func_name, exc, exc_tb, return_json, include_trace, elapsed) ==
    LET frame == TraceFrame(func_name, exc_tb)
        fname == IF include_trace /\ Len(exc_tb) > 0
                 THEN PyStr(Basename(frame.co_filename)) ELSE PyNone
        line_no == IF include_trace /\ Len(exc_tb) > 0
                   THEN PyInt(frame.tb_lineno) ELSE PyNone
        payload == [status |-> FALSE,
                    error |-> [type |-> exc.type, message |-> exc.message,
                               file |-> fname, line |-> line_no],
                    time_spent |-> elapsed]
    IN Returned(IF return_json THEN JsonDumpsFailure(payload) ELSE payload)

\* wrapper, lines 42-73: the except Exception branch
HandleException(func_name, exc, exc_tb, return_json, include_trace, elapsed) ==
    LET frame == TraceFrame(func_name, exc_tb)
        fname == IF include_trace /\ Len(exc_tb) > 0
                 THEN PyStr(Basename(frame.co_filename)) ELSE PyNone
        line_no == IF include_trace /\ Len(exc_tb) > 0
                   THEN PyInt(frame.tb_lineno) ELSE PyNone
        error_payload ==
            IF include_trace
            THEN [type |-> exc.type, message |-> exc.message,
                  file |-> fname, line |-> line_no]
            ELSE [type |-> exc.type, message |-> exc.message]
        payload == [status |-> FALSE, error |-> error_payload,
                    time_spent |-> elapsed]
    IN Returned(IF return_json THEN JsonDumpsFailure(payload) ELSE payload)

\* WrapperResult with line 36 written  result or DEFAULT_NO_RESULT : the
\* placeholder stands in for every falsy result
WrapperResult_FalsyPlaceholder(func, return_json, include_trace, elapsed) ==
    IF func.outcome = "return"
    THEN LET payload ==
                 [status |-> TRUE,
                  message |-> "Function " \o func.name \o " " \o DEFAULT_SUCCESS_MSG,
                  result |-> IF func.value \notin {PyNone, PyInt(0), PyStr(""), PyList(<<>>)}
                             THEN func.value
                             ELSE PyStr(DEFAULT_NO_RESULT),
                  time_spent |-> elapsed]
         IN IF ~return_json THEN Returned(payload)
            ELSE IF JsonSerializable(payload.result)
            THEN Returned(JsonDumpsSuccess(payload))
            ELSE HandleException(func.name,
                                 [type |-> "TypeError",
                                  message |-> "Object of type " \o payload.result.t
                                              \o " is not JSON serializable"],
                                 <<WrapperFrame(40)>> \o JsonFrames,
                                 return_json, include_trace, elapsed)
    ELSE IF IsException(func.exc.type)
    THEN HandleException(func.name, func.exc, <<WrapperFrame(30)>> \o func.tb,
                         return_json, include_trace, elapsed)
    ELSE Propagated(func.exc)

\* wrapper, lines 26-73: what a call of the wrapper gives its caller
WrapperResult(func, return_json, include_trace, elapsed) ==
    IF func.outcome = "return"
    THEN LET payload ==
                 [status |-> TRUE,
                  message |-> "Function " \o func.name \o " " \o DEFAULT_SUCCESS_MSG,
                  result |-> IF func.value # PyNone THEN func.value
                             ELSE PyStr(DEFAULT_NO_RESULT),
                  time_spent |-> elapsed]
         IN IF ~return_json THEN Returned(payload)
            ELSE IF JsonSerializable(payload.result)
            THEN Returned(JsonDumpsSuccess(payload))
            ELSE HandleException(func.name,
                                 [type |-> "TypeError",
                                  message |-> "Object of type " \o payload.result.t
                                              \o " is not JSON serializable"],
                                 <<WrapperFrame(40)>> \o JsonFrames,
                                 return_json, include_trace, elapsed)
    ELSE IF IsException(func.exc.type)
    THEN HandleException(func.name, func.exc, <<WrapperFrame(30)>> \o func.tb,
                         return_json, include_trace, elapsed)
    ELSE Propagated(func.exc)

InitWrapper ==
    /\ wcall = [op |-> "none"]
    /\ wret = [kind |-> "none"]

\* A call of a function decorated with
\* @safe_execute(return_json=..., include_trace=...)
Wrapper(func, return_json, include_trace, elapsed) ==
    /\ wcall' = [op |-> "wrapper", func |-> func, return_json |-> return_json,
                 include_trace |-> include_trace]
    /\ wret' = WrapperResult(func, return_json, include_trace, elapsed)
    /\ UNCHANGED <<logVars, bumpVars>>


(***************************************************************************)
(* scripts/bump_version.py                                                 *)
(***************************************************************************)
\* The largest segment of a version in a manifest the script starts from
MaxSegment == 9

Digits == "0123456789"

RECURSIVE IntToStr(_)
\* str(n) of a non-negative integer, as an f-string formats it
IntToStr(n) ==
    IF n < 10 THEN CharAt(Digits, n + 1)
    ELSE IntToStr(n \div 10) \o CharAt(Digits, (n % 10) + 1)

IsDigits(s) == /\ Len(s) >= 1
               /\ \A k \in 1..Len(s) : Find(Digits, CharAt(s, k), 1) # 0

RECURSIVE StrToInt(_)
\* int(s) of a string of decimal digits
StrToInt(s) ==
    IF Len(s) = 1 THEN Find(Digits, s, 1) - 1
    ELSE 10 * StrToInt(SubSeq(s, 1, Len(s) - 1))
         + (Find(Digits, CharAt(s, Len(s)), 1) - 1)

RECURSIVE Split(_, _)
\* str.split(sep)
Split(s, sep) ==
    LET i == Find(s, sep, 1)
    IN IF i = 0 THEN <<s>>
       ELSE <<SubSeq(s, 1, i - 1)>> \o Split(SubSeq(s, i + Len(sep), Len(s)), sep)

RECURSIVE Replace(_, _, _)
\* str.replace(old, new): every occurrence of old, from the left
Replace(s, old, new) ==
    LET i == Find(s, old, 1)
    IN IF i = 0 THEN s
       ELSE SubSeq(s, 1, i - 1) \o new
            \o Replace(SubSeq(s, i + Len(old), Len(s)), old, new)

\* the number of occurrences of sub in s, counted from the left without overlap
RECURSIVE Count(_, _)
Count(s, sub) ==
    LET i == Find(s, sub, 1)
    IN IF i = 0 THEN 0 ELSE 1 + Count(SubSeq(s, i + Len(sub), Len(s)), sub)

DoubleQuote == "\""
SingleQuote == "'"

\* A TOML string value: a basic string "..." or a literal string '...'
IsTomlString(v) ==
    /\ Len(v) >= 2
    /\ \/ CharAt(v, 1) = DoubleQuote /\ CharAt(v, Len(v)) = DoubleQuote
       \/ CharAt(v, 1) = SingleQuote /\ CharAt(v, Len(v)) = SingleQuote

TomlDecodeError == "<TOMLDecodeError>"
TomlKeyError == "<KeyError>"

\* tomllib.loads(text)["project"]["version"] for a manifest of key = "value"
\* lines under table headers: the version string, TomlDecodeError when a
\* value is not a TOML string, TomlKeyError when the key is absent
TomlProjectVersion(text) ==
    LET lines == Split(text, "\n")
        IsHeader(l) == Len(l) >= 1 /\ CharAt(l, 1) = "["
        IsPair(l) == l # "" /\ ~IsHeader(l)
        Key(l) == SubSeq(l, 1, Find(l, " = ", 1) - 1)
        Value(l) == SubSeq(l, Find(l, " = ", 1) + 3, Len(l))
        bad == {k \in 1..Len(lines) :
                   IsPair(lines[k]) /\ (Find(lines[k], " = ", 1) = 0
                                        \/ ~IsTomlString(Value(lines[k])))}
        \* the header the line k stands under
        Table(k) == LET hs == {h \in 1..k : IsHeader(lines[h])}
                    IN IF hs = {} THEN ""
                       ELSE lines[CHOOSE h \in hs : \A g \in hs : g <= h]
        found == {k \in 1..Len(lines) :
                     /\ IsPair(lines[k])
                     /\ Table(k) = "[project]"
                     /\ Key(lines[k]) = "version"}
    IN IF bad # {} THEN TomlDecodeError
       ELSE IF found = {} THEN TomlKeyError
       ELSE LET v == Value(lines[CHOOSE k \in found : TRUE])
            IN SubSeq(v, 2, Len(v) - 1)

\* The version X.Y.Z as the manifest writes it
VersionString(major, minor, patch) ==
    IntToStr(major) \o "." \o IntToStr(minor) \o "." \o IntToStr(patch)

\* A pyproject.toml whose strings are quoted with q
ManifestText(q, version) ==
    "[project]\nname = " \o q \o "aa-pytools" \o q
    \o "\nversion = " \o q \o version \o q
    \o "\n\n[tool.ruff]\ntarget-version = " \o q \o "py311" \o q \o "\n"

\* The command lines: sys.argv with and without the positional argument
ArgvArgs ==
    {<<"bump_version.py">>} \cup
    {<<"bump_version.py", k>> : k \in {"major", "minor", "patch", "bogus"}}

InitBump ==
    /\ argv = <<"bump_version.py">>
    /\ manifest = ManifestText(DoubleQuote, "0.1.0")
    /\ bump = [pc |-> "start"]

\* Bumped without the reset of the lower segments
Bumped_NoReset(kind, major, minor, patch) ==
    CASE kind = "major" -> <<major + 1, minor, patch>>
      [] kind = "minor" -> <<major, minor + 1, patch>>
      [] OTHER -> <<major, minor, patch + 1>>

\* lines 36-44: the match statement
Bumped(kind, major, minor, patch) ==
    CASE kind = "major" -> <<major + 1, 0, 0>>
      [] kind = "minor" -> <<major, minor + 1, 0>>
      [] OTHER -> <<major, minor, patch + 1>>

\* lines 51-53: the replacement of the version assignment
Rewritten(content, old_version, new_version) ==
    Replace(content,
            "version = '" \o old_version \o "'",
            "version = " \o new_version)

\* lines 36-59, once the version is parsed into major, minor and patch: the
\* locals of the script and the text it writes back
Finished(kind, content, version, major, minor, patch) ==
    LET b == Bumped(kind, major, minor, patch)
        new_version == VersionString(b[1], b[2], b[3])
    IN [pc |-> "done",
        kind |-> kind,
        old |-> <<major, minor, patch>>,
        old_manifest |-> content,
        new |-> b,
        new_version |-> new_version,
        content |-> Rewritten(content, version, new_version),
        stdout |-> "Version bumped -> " \o new_version]

\* line 33: major, minor, patch = map(int, version.split("."))
Parsed(kind, content, version, parts) ==
    IF Len(parts) # 3 \/ \E k \in 1..Len(parts) : ~IsDigits(parts[k])
    THEN [pc |-> "failed", raised |-> "<ValueError>", content |-> content]
    ELSE Finished(kind, content, version, StrToInt(parts[1]),
                  StrToInt(parts[2]), StrToInt(parts[3]))

\* lines 29-30: data = tomllib.loads(pyproject.read_text())
Loaded(kind, content, version) ==
    IF version \in {TomlDecodeError, TomlKeyError}
    THEN [pc |-> "failed", raised |-> version, content |-> content]
    ELSE Parsed(kind, content, version, Split(version, "."))

\* The script from its first line to its last: the locals it ends with and
\* the text of the manifest it leaves
Script(args, content) ==
    Loaded(IF Len(args) > 1 THEN args[2] ELSE "patch", content,
           TomlProjectVersion(content))

\* A run of the script, lines 26-59
BumpVersion ==
    /\ bump.pc = "start"
    /\ LET r == Script(argv, manifest)
       IN /\ manifest' = r.content
          /\ bump' = [f \in DOMAIN r \ {"content"} |-> r[f]]
    /\ UNCHANGED <<argv, logVars, wrapVars>>

\* A new run of the script, with a command line of its own
StartScript ==
    /\ bump.pc # "start"
    /\ \E a \in ArgvArgs : argv' = a
    /\ bump' = [pc |-> "start"]
    /\ UNCHANGED <<manifest, logVars, wrapVars>>

\* Versions the script cannot parse into three integers
MalformedVersions == {"1.2", "1.2.beta"}

\* The manifests the script is started on
InitManifests ==
    {ManifestText(q, VersionString(x, y, z)) :
        q \in {DoubleQuote, SingleQuote},
        x \in 0..MaxSegment, y \in 0..MaxSegment, z \in 0..MaxSegment}
    \cup {ManifestText(DoubleQuote, v) : v \in MalformedVersions}

(***************************************************************************)
(* Specifications                                                          *)
(***************************************************************************)
Init == InitLogging /\ InitWrapper /\ InitBump

\* The logging module under any sequence of calls from one thread
ConfigureLoggingCall ==
    \E level \in LevelArgs, fmt \in FormatOptions, log_file \in LogFileArgs,
       console \in BOOLEAN, force_reconfigure \in BOOLEAN :
        ConfigureLogging(level, fmt[1], fmt[2], log_file, console,
                         force_reconfigure)

GetLoggerCall == \E name \in LoggerNames : GetLogger(name)

Next == ConfigureLoggingCall \/ GetLoggerCall

Spec == Init /\ [][Next]_vars

\* The logging module called by NumThreads threads at once, one call each,
\* with no lock around the calls; a step is one statement group of the code
ThreadStep(t) ==
    \/ \E console \in BOOLEAN, force_reconfigure \in BOOLEAN :
           EnterConfigureLogging(t, console, force_reconfigure)
    \/ \E name \in {"aa_pytools.core", "some_other_package.module"} :
           EnterGetLogger(t, name)
    \/ Line42(t)
    \/ Line46(t)
    \/ Line58(t)
    \/ Line67(t)
    \/ Line73(t)
    \/ Line74(t)
    \/ Line88(t)

ConcNext == \E t \in Threads : ThreadStep(t)

ConcSpec == Init /\ [][ConcNext]_vars

\* The wrapper under any sequence of invocations
WrapperCall ==
    \E func \in Funcs, return_json \in BOOLEAN, include_trace \in BOOLEAN,
       elapsed \in 0..MaxElapsed :
        Wrapper(func, return_json, include_trace, elapsed)

WrapperNext == WrapperCall

WrapperSpec == Init /\ [][WrapperNext]_vars

\* The version bumper run on any manifest with any command line
BumpInit ==
    /\ InitLogging /\ InitWrapper
    /\ argv \in ArgvArgs
    /\ manifest \in InitManifests
    /\ bump = [pc |-> "start"]

BumpNext == BumpVersion \/ StartScript

BumpSpec == BumpInit /\ [][BumpNext]_vars


(***************************************************************************)
(* Properties                                                              *)
(***************************************************************************)
\* The status field of a payload the wrapper returned, structured or JSON
PayloadStatus(value) ==
    IF "j" \in DOMAIN value THEN value.status.j = "true" ELSE value.status

\* C1 as stated: every invocation of the wrapper returns a payload, and when
\* the wrapped call throws a failure of any kind the payload has status=false
\* and nothing is thrown to the caller.
C1_AlwaysReturns ==
    wcall.op = "wrapper" =>
        /\ wret.kind = "returned"
        /\ (wcall.func.outcome = "raise" => ~PayloadStatus(wret.value))

\* C1 amended: the wrapper returns a payload when the wrapped function
\* returns and when it throws a failure that derives from Exception, and in
\* the latter case the payload has status=false; a failure that does not
\* derive from Exception (KeyboardInterrupt, SystemExit, GeneratorExit) is
\* thrown on to the caller.
C1_ReturnsOnException ==
    wcall.op = "wrapper" =>
        /\ wcall.func.outcome = "return" => wret.kind = "returned"
        /\ (wcall.func.outcome = "raise" /\ IsException(wcall.func.exc.type)) =>
              (wret.kind = "returned" /\ ~PayloadStatus(wret.value))
        /\ (wcall.func.outcome = "raise" /\ ~IsException(wcall.func.exc.type)) =>
              wret = Propagated(wcall.func.exc)

\* C1 witness: a wrapped function divided by zero and the wrapper returned a
\* failure payload
C1_Witness ==
    /\ wcall.op = "wrapper"
    /\ wcall.func.outcome = "raise"
    /\ wcall.func.exc.type = "ZeroDivisionError"
    /\ wret.kind = "returned"
    /\ ~PayloadStatus(wret.value)

\* C2: a configure_logging call without force_reconfigure made when the state
\* is configured changes neither _config (level, format, date format,
\* handlers, configured) nor the package logger (level, handlers), whatever
\* its other options.
C2_ConfiguredNoOp ==
    [][(/\ last'.op = "configure_logging"
        /\ config.configured
        /\ ~last'.force_reconfigure)
       => UNCHANGED <<config, package_logger>>]_vars

\* C2 witness: configured at level INFO with one sink, then
\* configure_logging(level="debug") was called without force
C2_Witness ==
    /\ last.op = "configure_logging"
    /\ last.was_configured
    /\ ~last.force_reconfigure
    /\ last.level = "debug"
    /\ GetCurrentConfig.level = "INFO"
    /\ GetCurrentConfig.handlers_count = 1
    /\ package_logger.level = 20

\* The formatter the recorded configuration describes
CurrentFormatter == Formatter(config.format, config.date_format)

\* C3: after a configure_logging call with force_reconfigure=true that
\* returned, the package logger holds one console sink iff console was
\* requested, one file sink iff a log file was given, and nothing else; every
\* sink was built by this call; the recorded level is the requested one (the
\* default when none was given) and configured is true.
C3_ForcedCleanSinks ==
    (last.op = "configure_logging" /\ last.force_reconfigure /\ last.raised = "") =>
        /\ CountConsole(package_logger.handlers)
              = (IF last.console THEN 1 ELSE 0)
        /\ CountFile(package_logger.handlers)
              = (IF last.file THEN 1 ELSE 0)
        /\ Len(package_logger.handlers)
              = (IF last.console THEN 1 ELSE 0) + (IF last.file THEN 1 ELSE 0)
        /\ config.handlers = package_logger.handlers
        /\ \A k \in 1..Len(package_logger.handlers) :
              package_logger.handlers[k].formatter = CurrentFormatter
        /\ config.level = PyOr(last.level, DEFAULT_LOG_LEVEL)
        /\ config.configured

\* C3 witness: a configured state with a console sink was reconfigured by
\* force with console=false and a log file, leaving the file sink alone
C3_Witness ==
    /\ last.op = "configure_logging"
    /\ last.force_reconfigure
    /\ last.raised = ""
    /\ last.was_configured
    /\ ~last.console
    /\ last.file
    /\ last.level = "Warning"
    /\ config.level = "Warning"
    /\ Len(package_logger.handlers) = 1
    /\ IsFileHandler(package_logger.handlers[1])

\* A name under the reserved namespace: the package name or a dotted child
UnderNamespace(name) ==
    name = PACKAGE_NAME \/ StartsWith(name, PACKAGE_NAME \o ".")

\* C4: a get_logger call for a name under the namespace made in the
\* unconfigured state runs configure_logging with the defaults (configured
\* becomes true, one console sink is attached); a get_logger call made in the
\* configured state, for any name, does not run it and changes neither the
\* configuration nor the sinks; so of two get_logger calls in a row at most
\* the first configures.
C4_AutoConfigureOnce ==
    /\ []((last.op = "get_logger" /\ UnderNamespace(last.name)
           /\ ~last.was_configured) =>
             /\ last.called_configure
             /\ last.raised = ""
             /\ config.configured
             /\ config.level = DEFAULT_LOG_LEVEL
             /\ config.format = DEFAULT_FORMAT
             /\ config.date_format = DEFAULT_DATE_FORMAT
             /\ CountConsole(package_logger.handlers) = 1
             /\ Len(package_logger.handlers) = 1
             /\ Len(config.handlers) = 1)
    /\ [][(last'.op = "get_logger" /\ config.configured) =>
             /\ ~last'.called_configure
             /\ UNCHANGED <<config, package_logger>>]_vars
    /\ [][(last.op = "get_logger" /\ last.called_configure
           /\ last'.op = "get_logger") => ~last'.called_configure]_vars

\* C4 witness: get_logger("aa_pytools") configured, then
\* get_logger("aa_pytools.core") found the state configured
C4_Witness ==
    /\ last.op = "get_logger"
    /\ last.name = "aa_pytools.core"
    /\ last.was_configured
    /\ ~last.called_configure
    /\ config.configured
    /\ Len(package_logger.handlers) = 1
    /\ IsConsoleHandler(package_logger.handlers[1])

\* C5 as stated: get_logger for a name that is neither the package name nor
\* a dotted child of it never configures: called in the unconfigured state
\* it leaves the state unconfigured and without sinks.
C5_NoAutoConfigOutsideNamespace ==
    (last.op = "get_logger" /\ ~UnderNamespace(last.name) /\ ~last.was_configured) =>
        /\ ~last.called_configure
        /\ ~config.configured

\* C6 as stated: a configure_logging call that is not a no-op accepts a level
\* string iff its upper-case form is one of DEBUG, INFO, WARNING, ERROR,
\* CRITICAL, and then sets the package logger to that severity; for every
\* other level string it raises ValueError 'Invalid log level'.
C6_LevelValidation ==
    (/\ last.op = "configure_logging"
     /\ ~(last.was_configured /\ ~last.force_reconfigure)
     /\ last.level # NoneValue) =>
        IF UpperOf[last.level] \in LOG_LEVEL
        THEN /\ last.raised # "ValueError: Invalid log level"
             /\ package_logger.level = Severity(UpperOf[last.level])
        ELSE last.raised = "ValueError: Invalid log level"

\* C7 as stated: after a configure_logging call with console=false and
\* without force that was made in the unconfigured state and returned, the
\* package logger holds no console sink.
C7_ConsoleFalseNoConsoleSink ==
    (/\ last.op = "configure_logging"
     /\ ~last.was_configured
     /\ ~last.force_reconfigure
     /\ ~last.console
     /\ last.raised = "") =>
        ~HasConsoleHandler(package_logger.handlers)

\* C8 as stated: whenever the state is configured, every sink of the package
\* logger uses the formatter built from the format and date format that
\* get_current_config reports.
C8_SharedFormatter ==
    GetCurrentConfig.configured =>
        \A k \in 1..Len(package_logger.handlers) :
            package_logger.handlers[k].formatter
                = Formatter(GetCurrentConfig.format, GetCurrentConfig.date_format)

\* The bump kind the command line asks for: patch unless major or minor
RequestedKind ==
    IF Len(argv) > 1 /\ argv[2] \in {"major", "minor"} THEN argv[2] ELSE "patch"

\* C9: the script run on a manifest whose version is X.Y.Z computes
\* (X+1, 0, 0) for major, (X, Y+1, 0) for minor, and (X, Y, Z+1) for patch,
\* for no argument and for any other argument, and prints it as X.Y.Z.
C9_BumpComputation ==
    bump.pc = "done" =>
        LET X == bump.old[1]
            Y == bump.old[2]
            Z == bump.old[3]
        IN /\ \E q \in {DoubleQuote, SingleQuote} :
                bump.old_manifest = ManifestText(q, VersionString(X, Y, Z))
           /\ RequestedKind = "major" => bump.new = <<X + 1, 0, 0>>
           /\ RequestedKind = "minor" => bump.new = <<X, Y + 1, 0>>
           /\ RequestedKind = "patch" => bump.new = <<X, Y, Z + 1>>
           /\ bump.new_version = VersionString(bump.new[1], bump.new[2], bump.new[3])
           /\ bump.stdout = "Version bumped -> " \o bump.new_version

\* C9 witness: an unrecognized argument on 1.2.9 bumped the patch to 1.2.10
C9_Witness ==
    /\ bump.pc = "done"
    /\ argv = <<"bump_version.py", "bogus">>
    /\ bump.old = <<1, 2, 9>>
    /\ bump.new_version = "1.2.10"

\* C10 as stated: run on a manifest with the line version = "X.Y.Z" in
\* double quotes, the script leaves a manifest that holds the new quoted
\* version exactly once, no longer holds the old version line, and parses to
\* the version the script printed.
C10_ManifestRewritten ==
    (/\ bump.pc = "done"
     /\ bump.old_manifest
           = ManifestText(DoubleQuote, VersionString(bump.old[1], bump.old[2], bump.old[3]))) =>
        /\ Count(manifest, DoubleQuote \o bump.new_version \o DoubleQuote) = 1
        /\ Find(manifest, "version = " \o DoubleQuote
                          \o VersionString(bump.old[1], bump.old[2], bump.old[3])
                          \o DoubleQuote, 1) = 0
        /\ TomlProjectVersion(manifest) = bump.new_version


\* Whether a returned value is a JSON document (the wrapper was asked for
\* JSON) rather than the structured payload
IsJson(value) == "j" \in DOMAIN value

\* A return value that is empty: an empty string, list or tuple
IsEmpty(v) ==
    \/ v.t = "str" /\ v.s = ""
    \/ v.t \in {"list", "tuple"} /\ Len(v.items) = 0

\* The message and the result of a success payload, structured or JSON; the
\* result is compared as the value it encodes
MessageOf(value) == IF IsJson(value) THEN value.message.s ELSE value.message
ResultIs(value, v) ==
    IF IsJson(value) THEN value.result = JsonValue(v) ELSE value.result = v

\* C11 as stated: when the wrapped callable returns, the payload has
\* status=true, a message with the callable's name and the success phrase,
\* and the return value as result, the placeholder 'No result data' standing
\* in whenever the return value is absent or empty.
C11_SuccessPayload ==
    (wcall.op = "wrapper" /\ wcall.func.outcome = "return") =>
        /\ wret.kind = "returned"
        /\ PayloadStatus(wret.value)
        /\ Find(MessageOf(wret.value), wcall.func.name, 1) # 0
        /\ Find(MessageOf(wret.value), DEFAULT_SUCCESS_MSG, 1) # 0
        /\ ResultIs(wret.value,
                    IF wcall.func.value = PyNone \/ IsEmpty(wcall.func.value)
                    THEN PyStr(DEFAULT_NO_RESULT) ELSE wcall.func.value)

\* C11 amended: when the wrapped callable returns, the payload has
\* status=true, a message with the callable's name and the success phrase,
\* and the return value as result, the placeholder standing in only when the
\* return value is None (an empty string, an empty list and 0 are returned as
\* they are); except that in JSON mode a return value json cannot encode
\* gives a failure payload of kind TypeError.
C11_PlaceholderOnlyForNone ==
    (wcall.op = "wrapper" /\ wcall.func.outcome = "return") =>
        /\ wret.kind = "returned"
        /\ IF wcall.return_json /\ ~JsonSerializable(wcall.func.value)
           THEN /\ ~PayloadStatus(wret.value)
                /\ wret.value.error.type.s = "TypeError"
           ELSE /\ PayloadStatus(wret.value)
                /\ Find(MessageOf(wret.value), wcall.func.name, 1) # 0
                /\ Find(MessageOf(wret.value), DEFAULT_SUCCESS_MSG, 1) # 0
                /\ ResultIs(wret.value,
                            IF wcall.func.value = PyNone
                            THEN PyStr(DEFAULT_NO_RESULT) ELSE wcall.func.value)

\* C11 witness: a function returned the empty string and the structured
\* payload carries the empty string
C11_Witness ==
    /\ wcall.op = "wrapper"
    /\ wcall.func.outcome = "return"
    /\ wcall.func.value = PyStr("")
    /\ ~wcall.return_json
    /\ wret.kind = "returned"
    /\ wret.value.status
    /\ wret.value.result = PyStr("")

\* The error record of a failure payload, and its fields, structured or JSON
ErrorOf(value) == value.error
ErrorType(e) == IF "j" \in DOMAIN e THEN e.type.s ELSE e.type
ErrorMessage(e) == IF "j" \in DOMAIN e THEN e.message.s ELSE e.message
IsFileName(f) ==
    /\ IF "j" \in DOMAIN f THEN f.j = "string" ELSE f.t = "str"
    /\ Len(f.s) > 0
    /\ Find(f.s, "/", 1) = 0
IsPositiveInt(n) ==
    /\ IF "j" \in DOMAIN n THEN n.j = "number" ELSE n.t = "int"
    /\ n.i > 0

\* C12: when the wrapped callable throws a failure the wrapper catches, the
\* payload has status=false and an error record with the failure's class
\* name and message; the record has the file and line fields exactly when
\* trace inclusion was requested, and then the file is a non-empty file name
\* and the line a positive integer.
C12_FailurePayload ==
    (/\ wcall.op = "wrapper"
     /\ wcall.func.outcome = "raise"
     /\ wret.kind = "returned") =>
        LET e == ErrorOf(wret.value)
        IN /\ ~PayloadStatus(wret.value)
           /\ ErrorType(e) = wcall.func.exc.type
           /\ ErrorMessage(e) = wcall.func.exc.message
           /\ ("file" \in DOMAIN e) <=> wcall.include_trace
           /\ ("line" \in DOMAIN e) <=> wcall.include_trace
           /\ wcall.include_trace => (IsFileName(e.file) /\ IsPositiveInt(e.line))

\* C12 witness: a KeyError thrown with trace inclusion gave an error record
\* with a file and a line
C12_Witness ==
    /\ wcall.op = "wrapper"
    /\ wcall.func.outcome = "raise"
    /\ wcall.func.exc.type = "KeyError"
    /\ wcall.include_trace
    /\ wret.kind = "returned"
    /\ "file" \in DOMAIN ErrorOf(wret.value)
    /\ ErrorOf(wret.value).line.i > 0

RECURSIVE JsonLoads(_)
\* json.loads of a JSON value: null is None, an array is a list
JsonLoads(doc) ==
    CASE doc.j = "null" -> PyNone
      [] doc.j = "number" -> PyInt(doc.i)
      [] doc.j = "string" -> PyStr(doc.s)
      [] doc.j \in {"true", "false"} -> [t |-> "bool", b |-> doc.j = "true"]
      [] doc.j = "array" ->
            PyList([k \in 1..Len(doc.items) |-> JsonLoads(doc.items[k])])

\* json.loads of the error object of a failure payload
JsonLoadsError(doc) ==
    IF "file" \in DOMAIN doc
    THEN [type |-> doc.type.s, message |-> doc.message.s,
          file |-> JsonLoads(doc.file), line |-> JsonLoads(doc.line)]
    ELSE [type |-> doc.type.s, message |-> doc.message.s]

\* json.loads of the wrapper's JSON text, the elapsed time left out
JsonLoadsPayload(doc) ==
    IF "result" \in DOMAIN doc
    THEN [status |-> doc.status.j = "true",
          message |-> doc.message.s,
          result |-> JsonLoads(doc.result)]
    ELSE [status |-> doc.status.j = "true",
          error |-> JsonLoadsError(doc.error)]

\* A structured payload, the elapsed time left out
WithoutTime(payload) ==
    IF "result" \in DOMAIN payload
    THEN [status |-> payload.status, message |-> payload.message,
          result |-> payload.result]
    ELSE [status |-> payload.status, error |-> payload.error]

RECURSIVE TuplesAsLists(_)
\* A value with every tuple in it written as a list
TuplesAsLists(v) ==
    IF v.t \in {"list", "tuple"}
    THEN PyList([k \in 1..Len(v.items) |-> TuplesAsLists(v.items[k])])
    ELSE v

\* What the wrapper returns for the call made, asked for the structured
\* payload instead
StructuredTwin ==
    WrapperResult(wcall.func, FALSE, wcall.include_trace, 0).value

\* C13 as stated: for every call, the JSON text returned with
\* return_json=true parses to the structured payload returned for the same
\* call with return_json=false (elapsed time apart).
C13_JsonRoundTrip ==
    (wcall.op = "wrapper" /\ wcall.return_json /\ wret.kind = "returned") =>
        JsonLoadsPayload(wret.value) = WithoutTime(StructuredTwin)

\* C13 amended: the JSON text returned with return_json=true parses to the
\* structured payload of the same call (elapsed time apart) whenever the
\* callable throws or returns a value json can encode that holds no tuple; a
\* tuple in the return value comes back as a list, the rest of the payload
\* being equal; and a return value json cannot encode gives a JSON failure
\* payload of kind TypeError where the structured payload is a success.
C13_JsonRoundTripEncodable ==
    (wcall.op = "wrapper" /\ wcall.return_json /\ wret.kind = "returned") =>
        LET loaded == JsonLoadsPayload(wret.value)
            twin == WithoutTime(StructuredTwin)
        IN IF wcall.func.outcome = "raise"
           THEN loaded = twin
           ELSE IF JsonSerializable(wcall.func.value)
           THEN /\ loaded = [twin EXCEPT !.result = TuplesAsLists(twin.result)]
                /\ TuplesAsLists(wcall.func.value) = wcall.func.value
                       => loaded = twin
           ELSE /\ ~loaded.status
                /\ loaded.error.type = "TypeError"
                /\ twin.status
                /\ twin.result = wcall.func.value

\* C13 witness: a list of two numbers was returned in JSON mode and parses
\* back to the structured payload
C13_Witness ==
    /\ wcall.op = "wrapper"
    /\ wcall.return_json
    /\ wcall.func.outcome = "return"
    /\ wcall.func.value = PyList(<<PyInt(1), PyInt(2)>>)
    /\ wret.kind = "returned"
    /\ JsonLoadsPayload(wret.value).result = PyList(<<PyInt(1), PyInt(2)>>)
    /\ JsonLoadsPayload(wret.value) = WithoutTime(StructuredTwin)

\* C14: in every state reached by get_logger and configure_logging calls made
\* one after the other (any options, forced or not, failing calls included)
\* the namespace logger has at most one console sink and at most one file
\* sink, and get_current_config reports as many sinks as are attached; and a
\* configure call with force=false that follows a successful first
\* configure call with console=true leaves exactly one console sink.
C14_SinkCounts ==
    /\ [](/\ CountConsole(package_logger.handlers) <= 1
          /\ CountFile(package_logger.handlers) <= 1
          /\ GetCurrentConfig.handlers_count = Len(package_logger.handlers))
    /\ [][(/\ last.op = "configure_logging"
           /\ ~last.was_configured
           /\ last.console
           /\ last.raised = ""
           /\ last'.op = "configure_logging"
           /\ ~last'.force_reconfigure)
          => CountConsole(package_logger'.handlers) = 1]_vars

\* C14 witness: a second unforced configure call has returned and the logger
\* holds one console sink and one file sink, both reported
C14_Witness ==
    /\ last.op = "configure_logging"
    /\ last.was_configured
    /\ ~last.force_reconfigure
    /\ last.console
    /\ CountConsole(package_logger.handlers) = 1
    /\ CountFile(package_logger.handlers) = 1
    /\ GetCurrentConfig.handlers_count = 2

\* The entries of the traceback of the failing call that belong to the
\* wrapped callable: the entry of the frame the wrapper's call of line 30
\* created (the one just below the wrapper's own) and the entries of deeper
\* frames running the same code
OwnEntries(tb) ==
    {k \in 1..Len(tb) : /\ tb[k].co_name = tb[1].co_name
                        /\ tb[k].co_filename = tb[1].co_filename}

\* The location the error record reports, as <<file, line>>
ReportedLocation(value) ==
    LET e == ErrorOf(value) IN <<e.file.s, e.line.i>>
LocationOf(entry) == <<Basename(entry.co_filename), entry.tb_lineno>>

\* C15 as stated: with trace inclusion requested and a failing call, the
\* reported file and line are those of the innermost traceback entry that
\* belongs to the wrapped callable's own frame, and those of the outermost
\* entry of the traceback (the wrapper's) if no entry belongs to the wrapped
\* callable.
C15_InnermostOwnEntry ==
    (/\ wcall.op = "wrapper"
     /\ wcall.include_trace
     /\ wcall.func.outcome = "raise"
     /\ wret.kind = "returned") =>
        LET tb == wcall.func.tb
            own == OwnEntries(tb)
        IN ReportedLocation(wret.value) =
             IF own = {} THEN LocationOf(WrapperFrame(30))
             ELSE LocationOf(tb[CHOOSE k \in own : \A m \in own : m <= k])

\* C16 as stated: in every state where configured is true, the level
\* get_current_config reports names, case-insensitively, the severity in
\* effect on the namespace logger; so after a configure_logging call that
\* failed with the invalid-level error the reported level is still the one of
\* before the call, not the rejected one.
C16_ReportedLevelInEffect ==
    GetCurrentConfig.configured =>
        /\ UpperOf[GetCurrentConfig.level] \in LoggingAttrNames
        /\ LoggingAttr(UpperOf[GetCurrentConfig.level]).t = "int"
        /\ Severity(UpperOf[GetCurrentConfig.level]) = package_logger.level
        /\ (last.op = "configure_logging"
            /\ last.raised = "ValueError: Invalid log level")
               => GetCurrentConfig.level # last.level

\* The threads that went past the test of line 42 and found no console
\* handler at the test of lines 67-70
RacedThreads ==
    {t \in Threads : /\ threads[t].pc \in {"line73", "line74", "line88", "done"}
                     /\ threads[t].attach}

\* C17: with no lock around them, concurrent configure_logging calls (direct,
\* or made by get_logger) from the unconfigured state race on the sinks and
\* on the configured flag: the namespace logger holds more than one console
\* sink only when as many threads went past the configured check and then
\* found no console sink at the console-sink-exists check, and such an
\* interleaving of two threads is reachable (C17_Witness).
C17_DoubleSinkOnlyByRace ==
    CountConsole(package_logger.handlers) <= Cardinality(RacedThreads)

\* C17 witness: two threads have returned from unforced calls made in the
\* unconfigured state, both went past the configured check and the
\* console-sink-exists check, and the logger holds two console sinks
C17_Witness ==
    /\ \A t \in {1, 2} : /\ threads[t].pc = "done"
                         /\ threads[t].entered
                         /\ threads[t].attach
    /\ config.configured
    /\ CountConsole(package_logger.handlers) = 2
    /\ GetCurrentConfig.handlers_count = 2

====
